---- MODULE Spec2Model ----
(***************************************************************************)
(* json_minimal (src/src/lib.rs): the Json value tree, its mutation and    *)
(* lookup API (add, get, get_mut), the serializer (print) and the          *)
(* byte-cursor recursive-descent parser (parse and its sub-parsers).       *)
(*                                                                         *)
(* Bytes and chars are one-character strings; a Rust String or &[u8] is a  *)
(* sequence of them.  Positions (incr, child indices) are 0-based as in    *)
(* the source; At(s, i) reads s[i].                                        *)
(***************************************************************************)
EXTENDS Integers, Sequences, FiniteSets, TLC

VARIABLES json, last, input, incr, stack, status, result

vars == <<json, last, input, incr, stack, status, result>>

(***************************************************************************)
(* Bounds of the model.                                                    *)
(***************************************************************************)
\* largest number of nodes of a tree the caller builds
MaxNodes == 4
\* longest byte sequence of the exhaustively enumerated parser inputs
MaxLen == 5

At(s, i) == s[i + 1]

(***************************************************************************)
(* enum Json                                                               *)
(***************************************************************************)
OBJECT(name, value) == [tag |-> "OBJECT", name |-> name, value |-> value]
JSON(values) == [tag |-> "JSON", values |-> values]
ARRAY(values) == [tag |-> "ARRAY", values |-> values]
\* Json::STRING (STRING is a reserved word of TLA+)
STRING_(val) == [tag |-> "STRING", str |-> val]
NUMBER(val) == [tag |-> "NUMBER", num |-> val]
BOOL(val) == [tag |-> "BOOL", bool |-> val]
NULL == [tag |-> "NULL"]

\* Json::new()
new == JSON(<<>>)

\* Box::unbox / unbox_mut: the identity on the boxed value
unbox(j) == j

(***************************************************************************)
(* Json::add.  The result says whether the call panicked and, when it did  *)
(* not, the receiver after the push and the returned &mut Json, as the     *)
(* path from the receiver to the node it refers to (<<>>: `self`).         *)
(***************************************************************************)
AddPanic(self) == [panicked |-> TRUE, self |-> self, handle |-> <<>>]
AddOk(self) == [panicked |-> FALSE, self |-> self, handle |-> <<>>]

\* add without the check that keeps a raw Container out of a Container
AddNoNestingCheck(self, value) ==
    CASE self.tag = "JSON" -> AddOk(JSON(Append(self.values, value)))
      [] self.tag = "OBJECT" ->
           CASE self.value.tag = "JSON" ->
                  IF value.tag = "JSON"
                    THEN AddPanic(self)
                    ELSE AddOk(OBJECT(self.name, JSON(Append(self.value.values, value))))
             [] self.value.tag = "ARRAY" ->
                  AddOk(OBJECT(self.name, ARRAY(Append(self.value.values, value))))
             [] OTHER -> AddPanic(self)
      [] self.tag = "ARRAY" -> AddOk(ARRAY(Append(self.values, value)))
      [] OTHER -> AddPanic(self)

\* add whose Entry receiver pushes into its Container whatever it is given
AddEntryUnchecked(self, value) ==
    CASE self.tag = "JSON" ->
           IF value.tag = "JSON"
             THEN AddPanic(self)
             ELSE AddOk(JSON(Append(self.values, value)))
      [] self.tag = "OBJECT" ->
           CASE self.value.tag = "JSON" ->
                  AddOk(OBJECT(self.name, JSON(Append(self.value.values, value))))
             [] self.value.tag = "ARRAY" ->
                  AddOk(OBJECT(self.name, ARRAY(Append(self.value.values, value))))
             [] OTHER -> AddPanic(self)
      [] self.tag = "ARRAY" -> AddOk(ARRAY(Append(self.values, value)))
      [] OTHER -> AddPanic(self)

\* add whose Entry receiver applies the Container's rule to an Array too
AddEntryArrayStrict(self, value) ==
    CASE self.tag = "JSON" ->
           IF value.tag = "JSON"
             THEN AddPanic(self)
             ELSE AddOk(JSON(Append(self.values, value)))
      [] self.tag = "OBJECT" ->
           CASE self.value.tag \in {"JSON", "ARRAY"} ->
                  IF value.tag = "JSON"
                    THEN AddPanic(self)
                    ELSE AddOk(OBJECT(self.name,
                                      [self.value EXCEPT !.values = Append(@, value)]))
             [] OTHER -> AddPanic(self)
      [] self.tag = "ARRAY" -> AddOk(ARRAY(Append(self.values, value)))
      [] OTHER -> AddPanic(self)

\* add whose catch-all arms do nothing instead of panicking
AddScalarSilent(self, value) ==
    CASE self.tag = "JSON" ->
           IF value.tag = "JSON"
             THEN AddPanic(self)
             ELSE AddOk(JSON(Append(self.values, value)))
      [] self.tag = "OBJECT" ->
           CASE self.value.tag = "JSON" ->
                  IF value.tag = "JSON"
                    THEN AddPanic(self)
                    ELSE AddOk(OBJECT(self.name, JSON(Append(self.value.values, value))))
             [] self.value.tag = "ARRAY" ->
                  AddOk(OBJECT(self.name, ARRAY(Append(self.value.values, value))))
             [] OTHER -> AddOk(self)
      [] self.tag = "ARRAY" -> AddOk(ARRAY(Append(self.values, value)))
      [] OTHER -> AddOk(self)

\* add that keeps the names of a receiver's Entries distinct: an Entry whose
\* name a child already bears takes that child's place
AddReplaceSameName(self, value) ==
    LET Same(c) == value.tag = "OBJECT" /\ c.tag = "OBJECT" /\ c.name = value.name
        Put(values) ==
            IF \E i \in 1..Len(values) : Same(values[i])
              THEN [i \in 1..Len(values) |-> IF Same(values[i]) THEN value ELSE values[i]]
              ELSE Append(values, value)
    IN
    CASE self.tag = "JSON" ->
           IF value.tag = "JSON"
             THEN AddPanic(self)
             ELSE AddOk(JSON(Put(self.values)))
      [] self.tag = "OBJECT" ->
           CASE self.value.tag = "JSON" ->
                  IF value.tag = "JSON"
                    THEN AddPanic(self)
                    ELSE AddOk(OBJECT(self.name, JSON(Put(self.value.values))))
             [] self.value.tag = "ARRAY" ->
                  AddOk(OBJECT(self.name, ARRAY(Put(self.value.values))))
             [] OTHER -> AddPanic(self)
      [] self.tag = "ARRAY" -> AddOk(ARRAY(Put(self.values)))
      [] OTHER -> AddPanic(self)

\* Json::add
add(self, value) ==
    CASE self.tag = "JSON" ->
           IF value.tag = "JSON"
             THEN AddPanic(self)
             ELSE AddOk(JSON(Append(self.values, value)))
      [] self.tag = "OBJECT" ->
           LET obj_val == unbox(self.value) IN
           CASE obj_val.tag = "JSON" ->
                  IF value.tag = "JSON"
                    THEN AddPanic(self)
                    ELSE AddOk(OBJECT(self.name, JSON(Append(obj_val.values, value))))
             [] obj_val.tag = "ARRAY" ->
                  AddOk(OBJECT(self.name, ARRAY(Append(obj_val.values, value))))
             [] OTHER -> AddPanic(self)
      [] self.tag = "ARRAY" -> AddOk(ARRAY(Append(self.values, value)))
      [] OTHER -> AddPanic(self)

\* a scan that returns the last Entry of the name instead of the first
ScanLast(values, search, n) ==
    LET found == {i \in n..(Len(values) - 1) :
                      At(values, i).tag = "OBJECT" /\ At(values, i).name = search}
        m == CHOOSE i \in found : \A k \in found : k <= i
    IN IF found = {}
         THEN [kind |-> "None"]
         ELSE [kind |-> "Some", n |-> m, node |-> At(values, m)]

(***************************************************************************)
(* Json::get and Json::get_mut: the linear scan `for n in 0..values.len()` *)
(* returning a reference to values[n] of the first OBJECT named `search`.  *)
(***************************************************************************)
RECURSIVE Scan(_, _, _)
Scan(values, search, n) ==
    IF n >= Len(values)
      THEN [kind |-> "None"]
      ELSE IF At(values, n).tag = "OBJECT" /\ At(values, n).name = search
             THEN [kind |-> "Some", n |-> n, node |-> At(values, n)]
             ELSE Scan(values, search, n + 1)

get(self, search) ==
    CASE self.tag = "JSON" -> Scan(self.values, search, 0)
      [] self.tag = "OBJECT" ->
           IF unbox(self.value).tag = "JSON"
             THEN Scan(unbox(self.value).values, search, 0)
             ELSE [kind |-> "Panic"]
      [] OTHER -> [kind |-> "Panic"]

\* get_mut that looks into whatever collection an Entry holds
GetMutAnyCollection(self, search) ==
    CASE self.tag = "JSON" -> Scan(self.values, search, 0)
      [] self.tag = "OBJECT" ->
           IF self.value.tag \in {"JSON", "ARRAY"}
             THEN Scan(self.value.values, search, 0)
             ELSE [kind |-> "Panic"]
      [] OTHER -> [kind |-> "Panic"]

get_mut(self, search) ==
    CASE self.tag = "JSON" -> Scan(self.values, search, 0)
      [] self.tag = "OBJECT" ->
           IF unbox(self.value).tag = "JSON"
             THEN Scan(unbox(self.value).values, search, 0)
             ELSE [kind |-> "Panic"]
      [] OTHER -> [kind |-> "Panic"]

(***************************************************************************)
(* Formatting of an f64 by `{}` (Display).  The numbers of the model are   *)
(* integral: 5.0 prints as 5, -1.0 as -1.                                  *)
(***************************************************************************)
DigitChar(d) == At(<<"0", "1", "2", "3", "4", "5", "6", "7", "8", "9">>, d)

RECURSIVE DecDigits(_)
DecDigits(n) ==
    IF n < 10 THEN <<DigitChar(n)>> ELSE Append(DecDigits(n \div 10), DigitChar(n % 10))

FormatF64(val) == IF val < 0 THEN <<"-">> \o DecDigits(-val) ELSE DecDigits(val)

\* a pop that removes nothing, so that the last `,` stays
PopNothing(s) == s

\* String::pop: removes the last char, if there is one
Pop(s) == IF Len(s) = 0 THEN s ELSE SubSeq(s, 1, Len(s) - 1)

(***************************************************************************)
(* Json::print                                                             *)
(***************************************************************************)
RECURSIVE print(_)
RECURSIVE PrintValues(_, _, _)
\* the loop `for n in 0..values.len() { push_str(values[n].print()); push(',') }`
PrintValues(acc, values, n) ==
    IF n >= Len(values)
      THEN acc
      ELSE PrintValues(acc \o print(At(values, n)) \o <<",">>, values, n + 1)

print(self) ==
    CASE self.tag = "OBJECT" -> <<"\"">> \o self.name \o <<"\"", ":">> \o print(self.value)
      [] self.tag = "JSON" -> Append(Pop(PrintValues(<<"{">>, self.values, 0)), "}")
      [] self.tag = "ARRAY" -> Append(Pop(PrintValues(<<"[">>, self.values, 0)), "]")
      [] self.tag = "STRING" -> <<"\"">> \o self.str \o <<"\"">>
      [] self.tag = "NUMBER" -> FormatF64(self.num)
      [] self.tag = "BOOL" -> IF self.bool THEN <<"t", "r", "u", "e">>
                                           ELSE <<"f", "a", "l", "s", "e">>
      [] self.tag = "NULL" -> <<"n", "u", "l", "l">>

(***************************************************************************)
(* str::parse::<f64>.  The accepted texts are an optional sign followed by *)
(* a decimal (digits with an optional point, at least one digit) and an    *)
(* optional exponent, or by inf, infinity or nan.  A text of digits only   *)
(* yields its integer value; the value of any other accepted text is kept  *)
(* as the literal itself ([lit |-> s]), since no operation of the library  *)
(* computes with it.                                                       *)
(***************************************************************************)
Digits == {"0", "1", "2", "3", "4", "5", "6", "7", "8", "9"}

AllDigits(s) == \A i \in 1..Len(s) : s[i] \in Digits

DigitValue(c) == CHOOSE d \in 0..9 : DigitChar(d) = c

RECURSIVE DecValue(_)
DecValue(s) ==
    IF Len(s) = 0 THEN 0 ELSE 10 * DecValue(SubSeq(s, 1, Len(s) - 1)) + DigitValue(s[Len(s)])

Unsigned(s) == IF Len(s) > 0 /\ s[1] \in {"+", "-"} THEN Tail(s) ELSE s

IsDecimal(s) ==
    \E k \in 0..Len(s) :
        /\ AllDigits(SubSeq(s, 1, k))
        /\ \/ k = Len(s) /\ k > 0
           \/ /\ k < Len(s)
              /\ s[k + 1] = "."
              /\ AllDigits(SubSeq(s, k + 2, Len(s)))
              /\ Len(s) > 1

IsExponent(s) ==
    \/ Len(s) = 0
    \/ /\ s[1] \in {"e", "E"}
       /\ Len(Unsigned(Tail(s))) > 0
       /\ AllDigits(Unsigned(Tail(s)))

IsF64Text(s) ==
    LET u == Unsigned(s) IN
    \/ \E k \in 1..Len(u) : IsDecimal(SubSeq(u, 1, k)) /\ IsExponent(SubSeq(u, k + 1, Len(u)))
    \/ u \in {<<"i", "n", "f">>, <<"n", "a", "n">>,
              <<"i", "n", "f", "i", "n", "i", "t", "y">>}

ParseF64(s) ==
    IF ~IsF64Text(s)
      THEN [ok |-> FALSE]
      ELSE IF AllDigits(Unsigned(s))
             THEN [ok |-> TRUE,
                   val |-> IF s[1] = "-" THEN 0 - DecValue(Unsigned(s)) ELSE DecValue(Unsigned(s))]
             ELSE [ok |-> TRUE, val |-> [lit |-> s]]

(***************************************************************************)
(* The parser.  A call of parse runs on `input` with the cursor `incr`;    *)
(* `stack` holds one frame per active call (the last one is running), each *)
(* with its place (pc), its local `result` and, for parse_object, `name`.  *)
(* `status` is "idle" (no call), "running", "done" (parse returned         *)
(* `result`) or "panic" (an index out of bounds aborted the call).         *)
(***************************************************************************)
Ok(j) == [kind |-> "Ok", json |-> j]
Err(pos, msg) == [kind |-> "Err", pos |-> pos, msg |-> msg]
NoResult == [kind |-> "None"]

Frame(fn, name) == [fn |-> fn, pc |-> "start", result |-> <<>>, name |-> name]

Top == stack[Len(stack)]
Callers(stk) == SubSeq(stk, 1, Len(stk) - 1)

\* the one-byte lookahead table: the sub-parser a value starting with byte c goes to
SubParser(c) ==
    CASE c = "{" -> "parse_json"
      [] c = "\"" -> "parse_string"
      [] c = "[" -> "parse_array"
      [] c = "t" -> "parse_bool"
      [] c = "f" -> "parse_bool"
      [] c = "n" -> "parse_null"
      [] c \in Digits -> "parse_number"
      [] OTHER -> "none"

\* Deliver with an object body that takes name:value pairs only: a string
\* that comes back as a plain Text is an error
RECURSIVE DeliverPairsOnly(_, _)
DeliverPairsOnly(stk, v) ==
    IF Len(stk) = 0
      THEN [stack |-> stk, status |-> "done", result |-> v]
      ELSE LET top == stk[Len(stk)] IN
           CASE top.fn \in {"parse_json", "parse_array"} ->
                  IF v.kind = "Ok" /\ ~(top.fn = "parse_json" /\ v.json.tag = "STRING")
                    THEN [stack |-> Append(Callers(stk),
                                           [top EXCEPT !.result = Append(@, v.json)]),
                          status |-> "running", result |-> NoResult]
                    ELSE DeliverPairsOnly(Callers(stk),
                                          IF v.kind = "Ok"
                                            THEN Err(0, "Error parsing json.")
                                            ELSE v)
             [] top.fn = "parse_object" ->
                  IF v.kind = "Ok"
                    THEN DeliverPairsOnly(Callers(stk), Ok(OBJECT(top.name, v.json)))
                    ELSE DeliverPairsOnly(Callers(stk), v)
             [] OTHER -> DeliverPairsOnly(Callers(stk), v)

(***************************************************************************)
(* What the callers do with a callee's returned value v: parse and         *)
(* parse_string return it as it is, parse_object wraps an Ok value in an   *)
(* OBJECT and returns, parse_json and parse_array push an Ok value and go  *)
(* on with their loop; all of them return an Err at once.                  *)
(***************************************************************************)
RECURSIVE Deliver(_, _)
Deliver(stk, v) ==
    IF Len(stk) = 0
      THEN [stack |-> stk, status |-> "done", result |-> v]
      ELSE LET top == stk[Len(stk)] IN
           CASE top.fn \in {"parse_json", "parse_array"} ->
                  IF v.kind = "Ok"
                    THEN [stack |-> Append(Callers(stk),
                                           [top EXCEPT !.result = Append(@, v.json)]),
                          status |-> "running", result |-> NoResult]
                    ELSE Deliver(Callers(stk), v)
             [] top.fn = "parse_object" ->
                  IF v.kind = "Ok"
                    THEN Deliver(Callers(stk), Ok(OBJECT(top.name, v.json)))
                    ELSE Deliver(Callers(stk), v)
             [] OTHER -> Deliver(Callers(stk), v)

\* `input[*incr]` with *incr = i out of bounds: the call panics
Panic(i) ==
    /\ status' = "panic"
    /\ result' = [kind |-> "Panic", index |-> i]
    /\ incr' = i
    /\ UNCHANGED stack

\* the running call returns v, the cursor being at i
Return(v, i) ==
    LET d == Deliver(Callers(stack), v) IN
    /\ stack' = d.stack
    /\ status' = d.status
    /\ result' = d.result
    /\ incr' = i

\* the running call goes on as frame f, the cursor being at i
Continue(f, i) ==
    /\ stack' = Append(Callers(stack), f)
    /\ incr' = i
    /\ UNCHANGED <<status, result>>

\* the running call calls fn (for parse_object: with `name`), the cursor being at i
Call(fn, name, i) ==
    /\ stack' = Append(Append(Callers(stack), [Top EXCEPT !.pc = "called"]), Frame(fn, name))
    /\ incr' = i
    /\ UNCHANGED <<status, result>>

Running(fn) == status = "running" /\ Len(stack) > 0 /\ Top.fn = fn

\* parse that skips the blanks before the value
ParseSkipsBlanks ==
    /\ Running("parse")
    /\ UNCHANGED <<json, last, input>>
    /\ IF incr >= Len(input)
         THEN Panic(incr)
         ELSE IF At(input, incr) = " "
                THEN Continue(Top, incr + 1)
                ELSE IF SubParser(At(input, incr)) # "none"
                       THEN Call(SubParser(At(input, incr)), <<>>, incr)
                       ELSE Return(Err(incr, "Not a valid json format"), incr)

\* Json::parse
Parse ==
    /\ Running("parse")
    /\ UNCHANGED <<json, last, input>>
    /\ IF incr >= Len(input)
         THEN Panic(incr)
         ELSE IF SubParser(At(input, incr)) # "none"
                THEN Call(SubParser(At(input, incr)), <<>>, incr)
                ELSE Return(Err(incr, "Not a valid json format"), incr)

\* Json::parse_object: the byte at the cursor is the ':' after a field name
ParseObject ==
    /\ Running("parse_object")
    /\ Top.pc = "start"
    /\ UNCHANGED <<json, last, input>>
    /\ IF incr >= Len(input)
         THEN Panic(incr)
         ELSE IF At(input, incr) # ":"
                THEN Return(Err(incr, "Error parsing object."), incr)
                ELSE IF ~(incr + 1 < Len(input))
                       THEN Return(Err(incr + 1, "Error parsing object."), incr + 1)
                       ELSE IF SubParser(At(input, incr + 1)) # "none"
                              THEN Call(SubParser(At(input, incr + 1)), <<>>, incr + 1)
                              ELSE Return(Err(incr + 1, "Error parsing object."), incr + 1)

\* Json::parse_json: the opening '{', then one iteration of the loop per step
ParseJson ==
    /\ Running("parse_json")
    /\ UNCHANGED <<json, last, input>>
    /\ IF incr >= Len(input)
         THEN Panic(incr)
         ELSE LET c == At(input, incr) IN
              IF Top.pc = "start"
                THEN IF c # "{"
                       THEN Return(Err(incr, "Error parsing json."), incr)
                       ELSE IF incr + 1 < Len(input)
                              THEN Continue([Top EXCEPT !.pc = "loop"], incr + 1)
                              ELSE Return(Err(incr + 1, "Error parsing json."), incr + 1)
                ELSE CASE c = "," -> Continue(Top, incr + 1)
                       [] c = "}" -> Return(Ok(JSON(Top.result)), incr + 1)
                       [] SubParser(c) # "none" -> Call(SubParser(c), <<>>, incr)
                       [] OTHER -> Return(Err(incr, "Error parsing json."), incr)

\* Json::parse_array: the opening '[', then one iteration of the loop per step
ParseArray ==
    /\ Running("parse_array")
    /\ UNCHANGED <<json, last, input>>
    /\ IF incr >= Len(input)
         THEN Panic(incr)
         ELSE LET c == At(input, incr) IN
              IF Top.pc = "start"
                THEN IF c # "["
                       THEN Return(Err(incr, "Error parsing array."), incr)
                       ELSE IF incr + 1 < Len(input)
                              THEN Continue([Top EXCEPT !.pc = "loop"], incr + 1)
                              ELSE Return(Err(incr + 1, "Error parsing array."), incr + 1)
                ELSE CASE c = "," -> Continue(Top, incr + 1)
                       [] c = "]" -> Return(Ok(ARRAY(Top.result)), incr + 1)
                       [] SubParser(c) # "none" -> Call(SubParser(c), <<>>, incr)
                       [] OTHER -> Return(Err(incr, "Error parsing array."), incr)

\* parse_string that does not look at the byte after the closing quote
ParseStringNoLookahead ==
    /\ Running("parse_string")
    /\ Top.pc # "called"
    /\ UNCHANGED <<json, last, input>>
    /\ IF incr >= Len(input)
         THEN Panic(incr)
         ELSE LET c == At(input, incr) IN
              IF Top.pc = "start"
                THEN IF c # "\""
                       THEN Return(Err(incr, "Error parsing string."), incr)
                       ELSE IF incr + 1 < Len(input)
                              THEN Continue([Top EXCEPT !.pc = "loop"], incr + 1)
                              ELSE Return(Err(incr + 1, "Error parsing string."), incr + 1)
                ELSE IF c = "\""
                       THEN Return(Ok(STRING_(Top.result)), incr + 1)
                       ELSE IF incr + 1 < Len(input)
                              THEN Continue([Top EXCEPT !.result = Append(@, c)], incr + 1)
                              ELSE Return(Err(incr + 1, "Error parsing string."), incr + 1)

\* Json::parse_string: the opening quote, then one iteration of the loop per step
ParseString ==
    /\ Running("parse_string")
    /\ Top.pc # "called"
    /\ UNCHANGED <<json, last, input>>
    /\ IF incr >= Len(input)
         THEN Panic(incr)
         ELSE LET c == At(input, incr) IN
              IF Top.pc = "start"
                THEN IF c # "\""
                       THEN Return(Err(incr, "Error parsing string."), incr)
                       ELSE IF incr + 1 < Len(input)
                              THEN Continue([Top EXCEPT !.pc = "loop"], incr + 1)
                              ELSE Return(Err(incr + 1, "Error parsing string."), incr + 1)
                ELSE IF c = "\""
                       THEN IF incr + 1 < Len(input) /\ At(input, incr + 1) = ":"
                              THEN Call("parse_object", Top.result, incr + 1)
                              ELSE Return(Ok(STRING_(Top.result)), incr + 1)
                       ELSE IF incr + 1 < Len(input)
                              THEN Continue([Top EXCEPT !.result = Append(@, c)], incr + 1)
                              ELSE Return(Err(incr + 1, "Error parsing string."), incr + 1)

\* the bytes that end a number, a boolean or a null
Delimiters == {"}", "]", ","}

\* the end of parse_number: result.parse::<f64>()
NumberResult(text, i) ==
    IF ParseF64(text).ok
      THEN Ok(NUMBER(ParseF64(text).val))
      ELSE Err(i, "Error parsing number.")

\* Json::parse_number: one iteration of the loop per step
ParseNumber ==
    /\ Running("parse_number")
    /\ UNCHANGED <<json, last, input>>
    /\ IF incr >= Len(input)
         THEN Panic(incr)
         ELSE LET c == At(input, incr) IN
              IF c \in Delimiters
                THEN Return(NumberResult(Top.result, incr), incr)
                ELSE IF incr + 1 < Len(input)
                       THEN Continue([Top EXCEPT !.pc = "loop", !.result = Append(@, c)],
                                     incr + 1)
                       ELSE Return(NumberResult(Append(Top.result, c), incr + 1), incr + 1)

\* the end of parse_bool: the text is `true` or `false`
BoolResult(text, i) ==
    IF text = <<"t", "r", "u", "e">>
      THEN Ok(BOOL(TRUE))
      ELSE IF text = <<"f", "a", "l", "s", "e">>
             THEN Ok(BOOL(FALSE))
             ELSE Err(i, "Error parsing bool.")

\* Json::parse_bool: one iteration of the loop per step
ParseBool ==
    /\ Running("parse_bool")
    /\ UNCHANGED <<json, last, input>>
    /\ IF incr >= Len(input)
         THEN Panic(incr)
         ELSE LET c == At(input, incr) IN
              IF c \in Delimiters
                THEN Return(BoolResult(Top.result, incr), incr)
                ELSE IF incr + 1 < Len(input)
                       THEN Continue([Top EXCEPT !.pc = "loop", !.result = Append(@, c)],
                                     incr + 1)
                       ELSE Return(BoolResult(Append(Top.result, c), incr + 1), incr + 1)

\* the end of parse_null: the text is `null`
NullResult(text, i) ==
    IF text = <<"n", "u", "l", "l">> THEN Ok(NULL) ELSE Err(i, "Error parsing null.")

\* Json::parse_null: one iteration of the loop per step
ParseNull ==
    /\ Running("parse_null")
    /\ UNCHANGED <<json, last, input>>
    /\ IF incr >= Len(input)
         THEN Panic(incr)
         ELSE LET c == At(input, incr) IN
              IF c \in Delimiters
                THEN Return(NullResult(Top.result, incr), incr)
                ELSE IF incr + 1 < Len(input)
                       THEN Continue([Top EXCEPT !.pc = "loop", !.result = Append(@, c)],
                                     incr + 1)
                       ELSE Return(NullResult(Append(Top.result, c), incr + 1), incr + 1)

\* one step of the running parse call
ParserStep ==
    \/ Parse
    \/ ParseObject
    \/ ParseJson
    \/ ParseArray
    \/ ParseString
    \/ ParseNumber
    \/ ParseBool
    \/ ParseNull

(***************************************************************************)
(* The caller's side.  `json` is the tree the caller owns; `last` records  *)
(* the last call of the API: the receiver's path from the root of `json`   *)
(* (child indices, 0 for the value of an OBJECT), the argument, whether    *)
(* the call panicked, what it returned, and `json` before the call.        *)
(***************************************************************************)
Children(j) ==
    CASE j.tag \in {"JSON", "ARRAY"} -> j.values
      [] j.tag = "OBJECT" -> <<j.value>>
      [] OTHER -> <<>>

RECURSIVE NodeAt(_, _)
NodeAt(j, p) == IF Len(p) = 0 THEN j ELSE NodeAt(At(Children(j), Head(p)), Tail(p))

RECURSIVE ReplaceAt(_, _, _)
ReplaceAt(j, p, node) ==
    IF Len(p) = 0
      THEN node
      ELSE CASE j.tag = "OBJECT" -> OBJECT(j.name, ReplaceAt(j.value, Tail(p), node))
             [] j.tag = "JSON" ->
                  JSON([j.values EXCEPT ![Head(p) + 1] = ReplaceAt(@, Tail(p), node)])
             [] j.tag = "ARRAY" ->
                  ARRAY([j.values EXCEPT ![Head(p) + 1] = ReplaceAt(@, Tail(p), node)])

RECURSIVE Paths(_)
Paths(j) ==
    {<<>>} \cup UNION {{<<i>> \o q : q \in Paths(At(Children(j), i))} :
                       i \in 0..(Len(Children(j)) - 1)}

RECURSIVE Size(_)
RECURSIVE SizeAll(_)
SizeAll(js) == IF Len(js) = 0 THEN 0 ELSE Size(Head(js)) + SizeAll(Tail(js))
Size(j) == 1 + SizeAll(Children(j))

\* the names and scalar values the caller uses
Names == {<<"a">>, <<"x">>}
Scalars == {STRING_(<<"a">>), NUMBER(5), NUMBER(12), BOOL(TRUE), BOOL(FALSE), NULL}
\* the values the caller constructs and hands to add: a scalar, an empty
\* Container or Array, an Entry of one of these, an Entry of an Entry
Leaves == Scalars \cup {new, ARRAY(<<>>)}
Entries == {OBJECT(n, v) : n \in Names, v \in Leaves}
Constructed ==
    Leaves \cup Entries \cup {OBJECT(n, OBJECT(m, v)) : n \in Names, m \in Names,
                                                         v \in {new, ARRAY(<<>>)}}

NoCall == [op |-> "none", panicked |-> FALSE]
ParserIdle ==
    /\ input = <<>>
    /\ incr = 0
    /\ stack = <<>>
    /\ status = "idle"
    /\ result = NoResult

\* The caller can make its next call: no parse is running, the last call did
\* not panic (a panic ends the caller's run), and it was not a lookup (a lookup
\* changes nothing, so what follows it also follows the state before it).
Ready ==
    /\ status = "idle"
    /\ ~last.panicked
    /\ last.op \notin {"get", "get_mut"}

Init ==
    /\ json = new
    /\ last = NoCall
    /\ ParserIdle

\* let mut json = Json::new();
New ==
    /\ Ready
    /\ json' = new
    /\ last' = [op |-> "new", panicked |-> FALSE]
    /\ UNCHANGED <<input, incr, stack, status, result>>

\* receiver.add(value), the receiver being the node of `json` at path p
Add ==
    /\ Ready
    /\ \E p \in Paths(json), value \in Constructed :
         LET r == add(NodeAt(json, p), value) IN
         /\ r.panicked \/ Size(json) + Size(value) <= MaxNodes
         /\ json' = IF r.panicked THEN json ELSE ReplaceAt(json, p, r.self)
         /\ last' = [op |-> "add", path |-> p, arg |-> value,
                     panicked |-> r.panicked, before |-> json]
    /\ UNCHANGED <<input, incr, stack, status, result>>

\* receiver.get(search)
Get ==
    /\ Ready
    /\ \E p \in Paths(json), search \in Names :
         last' = [op |-> "get", path |-> p, arg |-> search,
                  panicked |-> get(NodeAt(json, p), search).kind = "Panic",
                  ret |-> get(NodeAt(json, p), search)]
    /\ UNCHANGED <<json, input, incr, stack, status, result>>

\* receiver.get_mut(search)
GetMut ==
    /\ Ready
    /\ \E p \in Paths(json), search \in Names :
         last' = [op |-> "get_mut", path |-> p, arg |-> search,
                  panicked |-> get_mut(NodeAt(json, p), search).kind = "Panic",
                  ret |-> get_mut(NodeAt(json, p), search)]
    /\ UNCHANGED <<json, input, incr, stack, status, result>>

\* Json::parse(json.print().as_bytes())
ParsePrinted ==
    /\ Ready
    /\ input' = print(json)
    /\ incr' = 0
    /\ stack' = <<Frame("parse", <<>>)>>
    /\ status' = "running"
    /\ last' = [op |-> "print", panicked |-> FALSE]
    /\ UNCHANGED <<json, result>>

Next ==
    \/ New
    \/ Add
    \/ Get
    \/ GetMut
    \/ ParsePrinted
    \/ ParserStep

\* the caller builds a tree, looks entries up, and parses what the tree prints
Spec == Init /\ [][Next]_vars

(***************************************************************************)
(* Json::parse on given bytes: every byte sequence of at most MaxLen bytes *)
(* over Bytes, and some longer texts.                                      *)
(***************************************************************************)
Bytes == {"{", "}", "[", "]", "\"", ":", ",", "1", " "}

\* well-formed object and array texts
WellFormed ==
    {<<"{", "}">>,
     <<"[", "]">>,
     <<"{", "\"", "a", "\"", ":", "1", "}">>,
     <<"[", "1", "]">>,
     <<"[", "1", ",", "2", ",", "3", "]">>,
     <<"{", "\"", "x", "\"", ":", "5", "}">>,
     <<"[", "f", "a", "l", "s", "e", "]">>,
     <<"{", "\"", "a", "\"", ":", "t", "r", "u", "e", ",", "\"", "b", "\"", ":", "n", "u", "l", "l", "}">>,
     <<"{", "\"", "a", "\"", ":", "{", "}", "}">>,
     <<"[", "{", "}", ",", "1", "2", "]">>,
     <<"{", "\"", "a", "\"", ":", "\"", "b", "\"", "}">>}

\* the same texts with their final closing `}` or `]` removed
Truncated == {Pop(t) : t \in WellFormed}

Texts ==
    WellFormed \cup Truncated \cup
    {<<"\"", "H", "\"", ":", "\"", "W", "\"">>,
     <<"{", "\"", "a", "\"", "}">>,
     <<"{", "\"", "a", "\"", ",", "\"", "b", "\"", ":", "1", "}">>,
     <<" ", "{", "}">>,
     <<"{", "\"", "a", "\"", ":", "[", "n", "u", "l", "l", "]", "}">>,
     <<"[", "\"", "a", "\"", ":", "1", "]">>,
     <<"[", "\"", "a", "\"", ",", "1", "]">>,
     <<"{", "\"", "a", "\"", ":", "\"", "b", "\"", ":", "1", "}">>}

Inputs == UNION {[1..n -> Bytes] : n \in 0..MaxLen} \cup Texts

InitParse ==
    /\ json = new
    /\ last = NoCall
    /\ input \in Inputs
    /\ incr = 0
    /\ stack = <<Frame("parse", <<>>)>>
    /\ status = "running"
    /\ result = NoResult

SpecParse == InitParse /\ [][ParserStep]_vars

(***************************************************************************)
(* Calls on a tree that is already built.  add, get and get_mut depend on  *)
(* the receiver alone, so the receiver is drawn from a set of trees: a     *)
(* Container of up to MaxKids children, alone or as the value of an Entry. *)
(* The children bear one name twice, hold a Container and an Array as      *)
(* values of Entries, and every scalar variant.  Either one add is made on *)
(* any node and one more on the reference the first add returned, or one   *)
(* lookup is made on any node.                                             *)
(***************************************************************************)
MaxKids == 2

Kids ==
    {OBJECT(<<"a">>, NULL),
     OBJECT(<<"a">>, NUMBER(5)),
     OBJECT(<<"x">>, JSON(<<OBJECT(<<"a">>, BOOL(TRUE))>>)),
     OBJECT(<<"x">>, ARRAY(<<STRING_(<<"a">>)>>)),
     NULL}

Built ==
    UNION {{JSON(k), OBJECT(<<"x">>, JSON(k))} :
           k \in UNION {[1..n -> Kids] : n \in 0..MaxKids}}

\* the values the caller adds to a built tree
Given == Kids \cup {new}

InitOps ==
    /\ json \in Built
    /\ last = NoCall
    /\ ParserIdle

\* `receiver.add(value)` as the first call on the tree; the reference it
\* returns is kept as the path of the node it refers to
AddTo ==
    /\ status = "idle"
    /\ last.op = "none"
    /\ \E p \in Paths(json), value \in Given :
         LET r == add(NodeAt(json, p), value) IN
         /\ json' = IF r.panicked THEN json ELSE ReplaceAt(json, p, r.self)
         /\ last' = [op |-> "add", path |-> p, arg |-> value,
                     panicked |-> r.panicked, before |-> json,
                     ret |-> p \o r.handle, chained |-> FALSE]
    /\ UNCHANGED <<input, incr, stack, status, result>>

\* `receiver.add(first).add(value)`: the second add of a chain, made on the
\* reference the first add returned
AddChained ==
    /\ status = "idle"
    /\ last.op = "add"
    /\ ~last.panicked
    /\ ~last.chained
    /\ \E value \in Given :
         LET r == add(NodeAt(json, last.ret), value) IN
         /\ json' = IF r.panicked THEN json ELSE ReplaceAt(json, last.ret, r.self)
         /\ last' = [op |-> "add", path |-> last.ret, arg |-> value,
                     panicked |-> r.panicked, before |-> json,
                     ret |-> last.ret \o r.handle, chained |-> TRUE,
                     first |-> last]
    /\ UNCHANGED <<input, incr, stack, status, result>>

NextAdds ==
    \/ AddTo
    \/ AddChained

SpecAdds == InitOps /\ [][NextAdds]_vars

\* one lookup on any node of a built tree
NextLookup ==
    \/ Get
    \/ GetMut

SpecLookup == InitOps /\ [][NextLookup]_vars

(***************************************************************************)
(* Properties.                                                             *)
(***************************************************************************)
\* the nodes of a tree
Nodes(j) == {NodeAt(j, p) : p \in Paths(j)}

\* no Container of the tree directly holds a raw Container
NoRawNesting(j) ==
    \A n \in Nodes(j) :
        n.tag = "JSON" => \A i \in 1..Len(n.values) : n.values[i].tag # "JSON"

\* the parse call has ended, by returning or by panicking
Ended == status \in {"done", "panic"}

\* the receiver of the last add, as it was before the call
Receiver == NodeAt(last.before, last.path)

\* C1 (as claimed): parsing what a tree built by legal adds prints returns Ok
\* with an equal tree: same variants, same scalar values, same child order.
C1_RoundTrip ==
    (last.op = "print" /\ Ended) =>
        (status = "done" /\ result.kind = "Ok" /\ result.json = json)

\* C1, the part that holds: the round trip of a tree none of whose Containers
\* and Arrays is empty.
RoundTripOfNonEmpty ==
    (/\ last.op = "print"
     /\ Ended
     /\ \A n \in Nodes(json) : n.tag \in {"JSON", "ARRAY"} => Len(n.values) > 0) =>
        (status = "done" /\ result = Ok(json))

\* C2 (as claimed): parse of a well-formed object or array text without its
\* final closing bracket returns an Err; it does not panic.
C2_TruncatedIsErr ==
    (Ended /\ input \in Truncated) => (status = "done" /\ result.kind = "Err")

\* C3 (as claimed): every read of the parser is at an index below the input's
\* length, so no parse call ends in an out-of-bounds panic.
C3_ReadsInBounds == status # "panic"

\* C4 (as claimed): an empty Container prints as {} and an empty Array as [],
\* at top level and nested.
C4_EmptyCollections ==
    last.op = "print" =>
        /\ json = new => input = <<"{", "}">>
        /\ \A n \in Nodes(json) :
               /\ n = JSON(<<>>) => print(n) = <<"{", "}">>
               /\ n = ARRAY(<<>>) => print(n) = <<"[", "]">>

\* C5: add of a raw Container to a Container panics and leaves the tree as it
\* was; add of a raw Container to an Array succeeds and the Container becomes
\* the Array's last child.
C5_StructuralLegality ==
    (last.op = "add" /\ last.arg.tag = "JSON") =>
        /\ Receiver.tag = "JSON" => (last.panicked /\ json = last.before)
        /\ Receiver.tag = "ARRAY" =>
               /\ ~last.panicked
               /\ NodeAt(json, last.path) = ARRAY(Append(Receiver.values, last.arg))

\* a raw Container was refused by a Container, in a tree one of whose Arrays
\* took a raw Container as its last child
C5_Witness ==
    /\ last.op = "add"
    /\ last.arg.tag = "JSON"
    /\ Receiver.tag = "JSON"
    /\ last.panicked
    /\ \E n \in Nodes(json) :
           n.tag = "ARRAY" /\ Len(n.values) > 0 /\ n.values[Len(n.values)].tag = "JSON"

\* C6: whatever adds built it, no Container of the caller's tree directly
\* holds a raw Container.
C6_NoRawContainerInContainer == NoRawNesting(json)

\* an add on an Entry holding a Container went through, and one Container of
\* the tree lies inside another as the value of an Entry
C6_Witness ==
    /\ last.op = "add"
    /\ ~last.panicked
    /\ Receiver.tag = "OBJECT"
    /\ Receiver.value.tag = "JSON"
    /\ \E n \in Nodes(json) :
           /\ n.tag = "JSON"
           /\ \E i \in 1..Len(n.values) :
                  n.values[i].tag = "OBJECT" /\ n.values[i].value.tag = "JSON"

\* C7 (as claimed): no tree a successful parse returns has a Container that
\* directly holds a raw Container.
C7_ParsedNoRawNesting ==
    (status = "done" /\ result.kind = "Ok") => NoRawNesting(result.json)

\* some Container of the tree directly holds a Text
HoldsText(j) ==
    \E n \in Nodes(j) :
        n.tag = "JSON" /\ \E i \in 1..Len(n.values) : n.values[i].tag = "STRING"

BareStringAt(k) ==
    /\ k >= 3
    /\ k < Len(input)
    /\ input[1] = "{"
    /\ input[2] = "\""
    /\ input[k] = "\""
    /\ \A i \in 3..(k - 1) : input[i] # "\""
    /\ input[k + 1] # ":"

C9_EntryReceiver ==
    (last.op = "add" /\ Receiver.tag = "OBJECT") =>
        /\ Receiver.value.tag = "JSON" =>
               IF last.arg.tag = "JSON"
                 THEN last.panicked /\ json = last.before
                 ELSE /\ ~last.panicked
                      /\ NodeAt(json, last.path) =
                           OBJECT(Receiver.name,
                                  JSON(Append(Receiver.value.values, last.arg)))
        /\ Receiver.value.tag = "ARRAY" =>
               /\ ~last.panicked
               /\ NodeAt(json, last.path) =
                    OBJECT(Receiver.name, ARRAY(Append(Receiver.value.values, last.arg)))

\* an Entry of an Array took a raw Container
C9_Witness ==
    /\ last.op = "add"
    /\ Receiver.tag = "OBJECT"
    /\ Receiver.value.tag = "ARRAY"
    /\ last.arg.tag = "JSON"
    /\ ~last.panicked
    /\ NodeAt(json, last.path).value.values[Len(Receiver.value.values) + 1] = new

\* the value an Entry holds, through the Entries nested in it
RECURSIVE Held(_)
Held(j) == IF j.tag = "OBJECT" THEN Held(j.value) ELSE j

\* C10 (as claimed): add on an Entry whose value is an Entry that holds,
\* through further Entries, a Container or an Array appends the child (a raw
\* Container for a held Container aside); it does not panic.
C10_NestedEntryReceiver ==
    (/\ last.op = "add"
     /\ Receiver.tag = "OBJECT"
     /\ Receiver.value.tag = "OBJECT"
     /\ Held(Receiver).tag \in {"JSON", "ARRAY"}
     /\ ~(Held(Receiver).tag = "JSON" /\ last.arg.tag = "JSON")) => ~last.panicked

\* the variants without children
ScalarTags == {"STRING", "NUMBER", "BOOL", "NULL"}

\* C11: add on a Text, Number, Boolean or Null, or on an Entry whose value is
\* one of these, panics whatever the child is, and the tree is left as it was.
C11_ScalarsGainNoChildren ==
    (/\ last.op = "add"
     /\ \/ Receiver.tag \in ScalarTags
        \/ Receiver.tag = "OBJECT" /\ Receiver.value.tag \in ScalarTags) =>
        (last.panicked /\ json = last.before)

\* an Entry of a scalar was asked to take an Entry, in a tree where a scalar
\* lies right under the root
C11_Witness ==
    /\ last.op = "add"
    /\ Receiver.tag = "OBJECT"
    /\ Receiver.value.tag \in ScalarTags
    /\ last.arg.tag = "OBJECT"
    /\ last.panicked
    /\ json = last.before
    /\ \E i \in 1..Len(json.values) : json.values[i].tag \in ScalarTags

\* the list an add on receiver j appends to
Items(j) == IF j.tag = "OBJECT" THEN j.value.values ELSE j.values

\* C12: an add that goes through appends the child and changes nothing else:
\* the receiver's children are its former children, in order and as they were,
\* then the new child, also when a child already bears the new Entry's name;
\* every node outside the receiver is as it was; the reference returned is the
\* receiver, so the second add of a chain appends to that same receiver.
C12_AppendOnly ==
    (last.op = "add" /\ ~last.panicked) =>
        LET after == NodeAt(json, last.path)
            Above(q) == Len(q) <= Len(last.path) /\ SubSeq(last.path, 1, Len(q)) = q
            Inner(q) == Receiver.tag = "OBJECT" /\ q = last.path \o <<0>>
        IN
        /\ after.tag = Receiver.tag
        /\ Receiver.tag = "OBJECT" =>
               (after.name = Receiver.name /\ after.value.tag = Receiver.value.tag)
        /\ Items(after) = Append(Items(Receiver), last.arg)
        /\ \A q \in Paths(last.before) :
               (~Above(q) /\ ~Inner(q)) =>
                   (q \in Paths(json) /\ NodeAt(json, q) = NodeAt(last.before, q))
        /\ last.ret = last.path
        /\ last.chained =>
               /\ last.path = last.first.path
               /\ Items(after) =
                      Items(NodeAt(last.first.before, last.first.path))
                          \o <<last.first.arg, last.arg>>

\* the second add of a chain gave a receiver that had children an Entry whose
\* name one of them bears, and both Entries are now among its children
C12_Witness ==
    /\ last.op = "add"
    /\ last.chained
    /\ ~last.panicked
    /\ last.arg.tag = "OBJECT"
    /\ Len(Items(NodeAt(last.first.before, last.first.path))) > 0
    /\ LET items == Items(NodeAt(json, last.path)) IN
       \E i \in 1..(Len(items) - 1) :
           /\ items[i].tag = "OBJECT"
           /\ items[i].name = last.arg.name
           /\ items[i] # last.arg

\* the last call was a lookup
Lookup == last.op \in {"get", "get_mut"}

\* the positions of the Entries named `search` among values
Named(values, search) ==
    {i \in 0..(Len(values) - 1) :
         At(values, i).tag = "OBJECT" /\ At(values, i).name = search}

\* C13: get and get_mut on a Container return its Entry child of that name at
\* the smallest index, and None exactly when no Entry child bears the name;
\* what is returned is a direct child that is an Entry, never another child
\* and never an Entry nested deeper.
C13_FirstEntryOfName ==
    (Lookup /\ NodeAt(json, last.path).tag = "JSON") =>
        LET values == NodeAt(json, last.path).values
            named == Named(values, last.arg)
        IN
        /\ ~last.panicked
        /\ last.ret.kind = "None" <=> named = {}
        /\ named # {} =>
               /\ last.ret.kind = "Some"
               /\ last.ret.n \in named
               /\ \A k \in named : last.ret.n <= k
               /\ last.ret.node = At(values, last.ret.n)

\* a lookup on a Container two of whose children are different Entries of the
\* name returned one of them
C13_Witness ==
    /\ Lookup
    /\ NodeAt(json, last.path).tag = "JSON"
    /\ last.ret.kind = "Some"
    /\ LET values == NodeAt(json, last.path).values IN
       \E i, k \in Named(values, last.arg) : At(values, i) # At(values, k)

\* C14: get and get_mut on an Entry whose value is a Container return what the
\* lookup on that Container returns; on an Array, a Text, a Number, a Boolean,
\* a Null and an Entry of anything but a Container they panic, returning
\* neither a child nor None.
C14_LookupReceivers ==
    Lookup =>
        LET self == NodeAt(json, last.path) IN
        IF self.tag = "JSON"
          THEN TRUE
          ELSE IF self.tag = "OBJECT" /\ self.value.tag = "JSON"
                 THEN LET named == Named(self.value.values, last.arg) IN
                      /\ ~last.panicked
                      /\ last.ret =
                           IF named = {}
                             THEN [kind |-> "None"]
                             ELSE LET n == CHOOSE i \in named : \A k \in named : i <= k
                                  IN [kind |-> "Some", n |-> n,
                                      node |-> At(self.value.values, n)]
                 ELSE last.panicked /\ last.ret.kind = "Panic"

\* a lookup on an Entry of a Container returned a child of that Container, in
\* a tree that has an Entry of an Array
C14_Witness ==
    /\ Lookup
    /\ NodeAt(json, last.path).tag = "OBJECT"
    /\ NodeAt(json, last.path).value.tag = "JSON"
    /\ last.ret.kind = "Some"
    /\ last.ret.node \in Kids
    /\ \E n \in Nodes(json) : n.tag = "OBJECT" /\ n.value.tag = "ARRAY"

\* C15: on a non-empty input whose first byte is none of { " [ t f n and no
\* ASCII digit, a leading blank included, parse returns an Err whose offset is
\* 0, whatever follows that byte.
C15_NoValueStartIsErrAtZero ==
    (/\ Ended
     /\ Len(input) > 0
     /\ input[1] \notin {"{", "\"", "[", "t", "f", "n",
                         "0", "1", "2", "3", "4", "5", "6", "7", "8", "9"}) =>
        (status = "done" /\ result.kind = "Err" /\ result.pos = 0)

\* parse of ` {}` returned the Err of offset 0
C15_Witness ==
    /\ input = <<" ", "{", "}">>
    /\ status = "done"
    /\ result.kind = "Err"
    /\ result.pos = 0
    /\ incr = 0

\* a string literal opens at place p of the input and closes at place k
\* (places counted from 1)
StringAt(p, k) ==
    /\ p < k
    /\ k <= Len(input)
    /\ input[p] = "\""
    /\ input[k] = "\""
    /\ \A i \in (p + 1)..(k - 1) : input[i] # "\""

\* the byte after place k is a `:`
ColonAfter(k) == k < Len(input) /\ input[k + 1] = ":"

\* C16: where a string literal "s" is parsed, a `:` right after its closing
\* quote makes it the name of an Entry whose value is what is parsed after the
\* `:`, and any other byte, or the end of the input, makes it the Text s with
\* the cursor right after the closing quote: at top level, as the first
\* element of an object body and of an array body, and as the value of an
\* Entry.  `"H":"W"` at top level returns an Entry.
C16_NameOrText ==
    /\ \A k \in 1..Len(input) :
           (status = "done" /\ StringAt(1, k)) =>
               IF ColonAfter(k)
                 THEN /\ result.kind = "Err" => result.pos >= k
                      /\ result.kind = "Ok" =>
                             /\ result.json.tag = "OBJECT"
                             /\ result.json.name = SubSeq(input, 2, k - 1)
                 ELSE /\ result = Ok(STRING_(SubSeq(input, 2, k - 1)))
                      /\ incr = k
    /\ \A k \in 1..Len(input) :
           (/\ status = "done"
            /\ input[1] \in {"{", "["}
            /\ StringAt(2, k)
            /\ result.kind = "Ok") =>
               /\ result.json.tag = IF input[1] = "{" THEN "JSON" ELSE "ARRAY"
               /\ Len(result.json.values) > 0
               /\ IF ColonAfter(k)
                    THEN /\ result.json.values[1].tag = "OBJECT"
                         /\ result.json.values[1].name = SubSeq(input, 3, k - 1)
                    ELSE result.json.values[1] = STRING_(SubSeq(input, 3, k - 1))
    /\ (Ended /\ input = <<"\"", "H", "\"", ":", "\"", "W", "\"">>) =>
           (status = "done" /\ result = Ok(OBJECT(<<"H">>, STRING_(<<"W">>))))
    /\ (Ended /\ input = <<"[", "\"", "a", "\"", ":", "1", "]">>) =>
           (status = "done" /\ result = Ok(ARRAY(<<OBJECT(<<"a">>, NUMBER(1))>>)))
    /\ (Ended /\ input = <<"[", "\"", "a", "\"", ",", "1", "]">>) =>
           (status = "done" /\ result = Ok(ARRAY(<<STRING_(<<"a">>), NUMBER(1)>>)))
    /\ (Ended /\ input = <<"{", "\"", "a", "\"", ":", "\"", "b", "\"", "}">>) =>
           (status = "done" /\ result = Ok(JSON(<<OBJECT(<<"a">>, STRING_(<<"b">>))>>)))
    /\ (Ended /\ input = <<"{", "\"", "a", "\"", ":", "\"", "b", "\"", ":", "1", "}">>) =>
           (/\ status = "done"
            /\ result = Ok(JSON(<<OBJECT(<<"a">>, OBJECT(<<"b">>, NUMBER(1)))>>)))

\* parse of `"H":"W"` returned the Entry H of the Text W
C16_Witness ==
    /\ input = <<"\"", "H", "\"", ":", "\"", "W", "\"">>
    /\ StringAt(1, 3)
    /\ ColonAfter(3)
    /\ status = "done"
    /\ result = Ok(OBJECT(<<"H">>, STRING_(<<"W">>)))

\* the texts of a non-empty list, with one `,` between each two
RECURSIVE Joined(_)
Joined(texts) ==
    IF Len(texts) = 1
      THEN texts[1]
      ELSE texts[1] \o <<",">> \o Joined(Tail(texts))

\* C17: in what print writes, an Entry is "name": followed by the print of its
\* value; a Container or Array of n >= 1 children is the opening bracket, the
\* prints of the children in order with one `,` between each two (n - 1 of
\* them, none after the last child), and the closing bracket; a Boolean is
\* true or false and a Null is null.  new() then add of the Entry x of the
\* Number 5 prints {"x":5}.
C17_PrintOfNonEmpty ==
    last.op = "print" =>
        /\ input = print(json)
        /\ \A n \in Nodes(json) :
               /\ n.tag = "OBJECT" =>
                      print(n) = <<"\"">> \o n.name \o <<"\"", ":">> \o print(n.value)
               /\ (n.tag \in {"JSON", "ARRAY"} /\ Len(n.values) >= 1) =>
                      /\ print(n) =
                             <<IF n.tag = "JSON" THEN "{" ELSE "[">>
                                 \o Joined([i \in 1..Len(n.values) |-> print(n.values[i])])
                                 \o <<IF n.tag = "JSON" THEN "}" ELSE "]">>
                      /\ print(n)[Len(print(n)) - 1] # ","
               /\ n = BOOL(TRUE) => print(n) = <<"t", "r", "u", "e">>
               /\ n = BOOL(FALSE) => print(n) = <<"f", "a", "l", "s", "e">>
               /\ n = NULL => print(n) = <<"n", "u", "l", "l">>
        /\ json = JSON(<<OBJECT(<<"x">>, NUMBER(5))>>) =>
               input = <<"{", "\"", "x", "\"", ":", "5", "}">>

\* the Container of the Entry x of 5 and of true was printed as {"x":5,true}
C17_Witness ==
    /\ last.op = "print"
    /\ json = JSON(<<OBJECT(<<"x">>, NUMBER(5)), BOOL(TRUE)>>)
    /\ input = <<"{", "\"", "x", "\"", ":", "5", ",", "t", "r", "u", "e", "}">>

\* C18 (as claimed): parse always returns: a parse that has not returned yet
\* takes one more step.
C18_ParseReturns == status = "done" \/ ENABLED ParserStep

\* A bound on the steps left to a running parse: three for each byte from
\* the cursor on, and up to two for where the running sub-parser stands (a
\* loop that may call a sub-parser at the cursor: 1; a sub-parser that has
\* not read its first byte: 0; past it: 2).
StepsLeft ==
    3 * (Len(input) - incr)
      + (CASE Top.fn = "parse" -> 1
           [] Top.fn \in {"parse_json", "parse_array"} ->
                IF Top.pc = "start" THEN 0 ELSE 1
           [] OTHER -> IF Top.pc = "start" THEN 0 ELSE 2)

\* C18, the part that holds: every step of a parse that goes on moves the
\* cursor forward or leaves it, never back, and lowers the bound on the steps
\* left, which is never negative and starts at 3 * Len(input) + 1; so parse
\* ends, by returning or by the panic of C3.
ParseStepsDescend ==
    [][(status = "running" /\ status' = "running") =>
           (incr' >= incr /\ StepsLeft' < StepsLeft /\ StepsLeft' >= 0)]_vars

====
